---- MODULE Spec2Model ----
(***************************************************************************)
(* Strassen matrix multiplication over aliased views of flat buffers, with *)
(* dimension padding and a shared scratch arena (src/unnamed/part_000),    *)
(* and the earlier allocation-per-level variant (src/_strassen.cpp).       *)
(***************************************************************************)
EXTENDS Integers, Sequences, FiniteSets, TLC

\* ------------------------------------------------------------------ bounds

\* Largest true dimension N of the main specification.
MaxDim == 5
\* Largest recursion cutoff of the main specification.
MaxCutoff == 4
\* Largest true dimension for which every hot cell of a and of b is enumerated;
\* above it only the two corner cells are.
MaxFullDim == 3
\* Largest true dimension and cutoff of the padding specification.
MaxPadDim == 24
MaxPadCutoff == 8
\* Largest side of the linear multiplication specification.
MaxLinDim == 3
\* Largest dimension of the view specification.
MaxViewDim == 6
\* Width w of int in the model: additions, subtractions and multiplications
\* are taken modulo 2^w, as two's complement.
IntBits == 12
\* Largest true dimension of the wrapping specification.
MaxWrapDim == 3

VARIABLES
    dimension,  \* main: int dimension (true side N of a and b)
    cutoff,     \* main: int cutoff
    mem,        \* the matrix_data buffers: a, b, c_padded, scratch_space
    stack,      \* activation records of strassen_mul_recursion, innermost last
    pc,         \* position of main
    calls,      \* number of activations of strassen_mul_recursion so far
    returned,   \* the activation record that returned last
    mem0,       \* the buffers as they were when the operation was entered
    side,       \* side of the activation the descent has reached
    depth,      \* number of activations above it
    view        \* _strassen.cpp: the operand 'a' of the current mul

vars == <<dimension, cutoff, mem, stack, pc, calls, returned, mem0, side, depth, view>>

\* What the steps of strassen_mul leave alone.
fixed == <<dimension, cutoff, mem0, side, depth, view>>

\* ------------------------------------------------------------ arithmetic

\* Mutant of ceil_divide: the half is rounded down.
ceil_divide_floor(x) == x \div 2

ceil_divide(x) == x \div 2 + (IF x % 2 # 0 THEN 1 ELSE 0)

IntMin == -(2 ^ (IntBits - 1))

IntMax == 2 ^ (IntBits - 1) - 1

\* Mutant of int_wrap: the result saturates at the ends of the range.
int_saturate(v) == IF v > IntMax THEN IntMax ELSE IF v < IntMin THEN IntMin ELSE v

\* The int an arithmetic result is stored as.
int_wrap(v) == ((v - IntMin) % (2 ^ IntBits)) + IntMin

RECURSIVE padding_loop(_, _, _)
padding_loop(dim, cut, power) ==
    IF dim > cut
    THEN padding_loop(ceil_divide(dim), cut, power + 1)
    ELSE [dimension |-> dim, power |-> power]

\* Mutant of padding_size: the true dimension is not padded.
padding_size_unpadded(dim, cut) == dim

padding_size(dim, cut) ==
    LET r == padding_loop(dim, cut, 0) IN r.dimension * (2 ^ r.power)

\* ------------------------------------------------------------ matrix_data

\* matrix_data(int dimension): dimension * dimension zeroes, flat.
matrix_data(dim) ==
    [dimension |-> dim, data |-> [idx \in 0 .. (dim * dim - 1) |-> 0]]

matrix_data_size(md) == md.dimension * md.dimension

\* Mutant of matrix_data_in_bounds: the flat index is not compared to the size.
matrix_data_in_bounds_unsized(md, i, j) == i >= 0 /\ j >= 0

matrix_data_in_bounds(md, i, j) ==
    i >= 0 /\ j >= 0 /\ i + md.dimension * j < matrix_data_size(md)

matrix_data_get(md, i, j) == md.data[i + md.dimension * j]

\* -------------------------------------------------------------- submatrix

\* submatrix(matrix_data data): the whole buffer; data is the buffer's name.
submatrix(m, name) ==
    [data |-> name, i |-> 0, j |-> 0, dimension |-> m[name].dimension]

submatrix_sub(v, x, y) ==
    LET d == ceil_divide(v.dimension)
    IN  [data |-> v.data, i |-> v.i + x * d, j |-> v.j + y * d, dimension |-> d]

submatrix_in_bounds(m, v, x, y) ==
    /\ matrix_data_in_bounds(m[v.data], x + v.i, y + v.j)
    /\ x >= 0 /\ x < v.dimension /\ y >= 0 /\ y < v.dimension

\* Reading through the reference at(x, y) returns.
submatrix_at(m, v, x, y) ==
    IF ~submatrix_in_bounds(m, v, x, y)
    THEN 0
    ELSE matrix_data_get(m[v.data], x + v.i, y + v.j)

\* Assigning through the reference at(x, y) returns: the garbage variable
\* 'padding' of the view's own copy takes the value when out of bounds.
submatrix_assign(m, v, x, y, val) ==
    IF ~submatrix_in_bounds(m, v, x, y)
    THEN m
    ELSE [m EXCEPT ![v.data].data[(x + v.i) + m[v.data].dimension * (y + v.j)] = val]

\* F(v) with v evaluated before F is entered. TLC passes an argument
\* unevaluated, so a loop written as a recursion would otherwise carry one
\* pending evaluation per iteration.
Force(F(_), v) == CHOOSE r \in {F(x) : x \in {v}} : TRUE

\* clear(): for (j...) for (i...) at(i, j) = 0
RECURSIVE clear_i(_, _, _, _)
clear_i(m, v, j, i) ==
    IF i >= v.dimension
    THEN m
    ELSE LET rest(x) == clear_i(x, v, j, i + 1)
         IN  Force(rest, submatrix_assign(m, v, i, j, 0))

RECURSIVE clear_j(_, _, _)
clear_j(m, v, j) ==
    IF j >= v.dimension
    THEN m
    ELSE LET rest(x) == clear_j(x, v, j + 1)
         IN  Force(rest, clear_i(m, v, j, 0))

\* Mutant of clear: the output is left as it was found.
clear_skipped(m, v) == m

clear(m, v) == clear_j(m, v, 0)

\* sum(a, b, c): for (j...) for (i...) c.at(i, j) = a.at(i, j) + b.at(i, j)
RECURSIVE sum_i(_, _, _, _, _, _)
sum_i(m, va, vb, vc, j, i) ==
    IF i >= vc.dimension
    THEN m
    ELSE LET rest(x) == sum_i(x, va, vb, vc, j, i + 1)
         IN  Force(rest, submatrix_assign(m, vc, i, j,
                             int_wrap(submatrix_at(m, va, i, j) + submatrix_at(m, vb, i, j))))

RECURSIVE sum_j(_, _, _, _, _)
sum_j(m, va, vb, vc, j) ==
    IF j >= vc.dimension
    THEN m
    ELSE LET rest(x) == sum_j(x, va, vb, vc, j + 1)
         IN  Force(rest, sum_i(m, va, vb, vc, j, 0))

sum(m, va, vb, vc) == sum_j(m, va, vb, vc, 0)

\* sub(a, b, c): for (j...) for (i...) c.at(i, j) = a.at(i, j) - b.at(i, j)
RECURSIVE sub_i(_, _, _, _, _, _)
sub_i(m, va, vb, vc, j, i) ==
    IF i >= vc.dimension
    THEN m
    ELSE LET rest(x) == sub_i(x, va, vb, vc, j, i + 1)
         IN  Force(rest, submatrix_assign(m, vc, i, j,
                             int_wrap(submatrix_at(m, va, i, j) - submatrix_at(m, vb, i, j))))

RECURSIVE sub_j(_, _, _, _, _)
sub_j(m, va, vb, vc, j) ==
    IF j >= vc.dimension
    THEN m
    ELSE LET rest(x) == sub_j(x, va, vb, vc, j + 1)
         IN  Force(rest, sub_i(m, va, vb, vc, j, 0))

\* Mutant of sub: it adds, as sum does.
sub_adds(m, va, vb, vc) == sum_j(m, va, vb, vc, 0)

sub(m, va, vb, vc) == sub_j(m, va, vb, vc, 0)

\* linear_mul(a, b, c):
\* for (k...) for (i...) { r = a.at(i, k); for (j...) c.at(i, j) += r * b.at(k, j); }
RECURSIVE linear_mul_j(_, _, _, _, _, _, _)
linear_mul_j(m, vb, vc, k, i, r, j) ==
    IF j >= vc.dimension
    THEN m
    ELSE LET rest(x) == linear_mul_j(x, vb, vc, k, i, r, j + 1)
         IN  Force(rest, submatrix_assign(m, vc, i, j,
                             int_wrap(submatrix_at(m, vc, i, j)
                                          + int_wrap(r * submatrix_at(m, vb, k, j)))))

RECURSIVE linear_mul_i(_, _, _, _, _, _)
linear_mul_i(m, va, vb, vc, k, i) ==
    IF i >= vc.dimension
    THEN m
    ELSE LET rest(x) == linear_mul_i(x, va, vb, vc, k, i + 1)
         IN  Force(rest, linear_mul_j(m, vb, vc, k, i, submatrix_at(m, va, i, k), 0))

RECURSIVE linear_mul_k(_, _, _, _, _)
linear_mul_k(m, va, vb, vc, k) ==
    IF k >= vc.dimension
    THEN m
    ELSE LET rest(x) == linear_mul_k(x, va, vb, vc, k + 1)
         IN  Force(rest, linear_mul_i(m, va, vb, vc, k, 0))

\* Mutant of linear_mul: the output is cleared before the accumulation.
linear_mul_cleared(m, va, vb, vc) == linear_mul_k(clear(m, vc), va, vb, vc, 0)

linear_mul(m, va, vb, vc) == linear_mul_k(m, va, vb, vc, 0)

\* ------------------------------------------------- strassen_mul_recursion

\* Mutant of Operand: the recursive scratch SR is cut where sum0 is.
Operand_SR_on_sum0(f, name) ==
    CASE name = "A00" -> submatrix_sub(f.A, 0, 0)
      [] name = "A01" -> submatrix_sub(f.A, 0, 1)
      [] name = "A10" -> submatrix_sub(f.A, 1, 0)
      [] name = "A11" -> submatrix_sub(f.A, 1, 1)
      [] name = "B00" -> submatrix_sub(f.B, 0, 0)
      [] name = "B01" -> submatrix_sub(f.B, 0, 1)
      [] name = "B10" -> submatrix_sub(f.B, 1, 0)
      [] name = "B11" -> submatrix_sub(f.B, 1, 1)
      [] name = "C00" -> submatrix_sub(f.C, 0, 0)
      [] name = "C01" -> submatrix_sub(f.C, 0, 1)
      [] name = "C10" -> submatrix_sub(f.C, 1, 0)
      [] name = "C11" -> submatrix_sub(f.C, 1, 1)
      [] name = "M" -> submatrix_sub(f.S, 0, 0)
      [] name = "SR" -> submatrix_sub(f.S, 1, 0)
      [] name = "sum0" -> submatrix_sub(f.S, 1, 0)
      [] name = "sum1" -> submatrix_sub(f.S, 1, 1)

\* The views a frame names: its parameters and the quadrants it cuts.
Operand(f, name) ==
    CASE name = "A00" -> submatrix_sub(f.A, 0, 0)
      [] name = "A01" -> submatrix_sub(f.A, 0, 1)
      [] name = "A10" -> submatrix_sub(f.A, 1, 0)
      [] name = "A11" -> submatrix_sub(f.A, 1, 1)
      [] name = "B00" -> submatrix_sub(f.B, 0, 0)
      [] name = "B01" -> submatrix_sub(f.B, 0, 1)
      [] name = "B10" -> submatrix_sub(f.B, 1, 0)
      [] name = "B11" -> submatrix_sub(f.B, 1, 1)
      [] name = "C00" -> submatrix_sub(f.C, 0, 0)
      [] name = "C01" -> submatrix_sub(f.C, 0, 1)
      [] name = "C10" -> submatrix_sub(f.C, 1, 0)
      [] name = "C11" -> submatrix_sub(f.C, 1, 1)
      [] name = "M" -> submatrix_sub(f.S, 0, 0)
      [] name = "SR" -> submatrix_sub(f.S, 0, 1)
      [] name = "sum0" -> submatrix_sub(f.S, 1, 0)
      [] name = "sum1" -> submatrix_sub(f.S, 1, 1)

\* Mutant of Program: the second product is added to C11.
Program_M2_added ==
    << [op |-> "sum",  x |-> "A00",  y |-> "A11",  z |-> "sum0"],
       [op |-> "sum",  x |-> "B00",  y |-> "B11",  z |-> "sum1"],
       [op |-> "call", x |-> "sum0", y |-> "sum1", z |-> "M"],
       [op |-> "sum",  x |-> "C00",  y |-> "M",    z |-> "C00"],
       [op |-> "sum",  x |-> "C11",  y |-> "M",    z |-> "C11"],
       [op |-> "sum",  x |-> "A10",  y |-> "A11",  z |-> "sum0"],
       [op |-> "call", x |-> "sum0", y |-> "B00",  z |-> "M"],
       [op |-> "sum",  x |-> "C10",  y |-> "M",    z |-> "C10"],
       [op |-> "sum",  x |-> "C11",  y |-> "M",    z |-> "C11"],
       [op |-> "sub",  x |-> "B01",  y |-> "B11",  z |-> "sum0"],
       [op |-> "call", x |-> "A00",  y |-> "sum0", z |-> "M"],
       [op |-> "sum",  x |-> "C01",  y |-> "M",    z |-> "C01"],
       [op |-> "sum",  x |-> "C11",  y |-> "M",    z |-> "C11"],
       [op |-> "sub",  x |-> "B10",  y |-> "B00",  z |-> "sum0"],
       [op |-> "call", x |-> "A11",  y |-> "sum0", z |-> "M"],
       [op |-> "sum",  x |-> "C00",  y |-> "M",    z |-> "C00"],
       [op |-> "sum",  x |-> "C10",  y |-> "M",    z |-> "C10"],
       [op |-> "sum",  x |-> "A00",  y |-> "A01",  z |-> "sum0"],
       [op |-> "call", x |-> "sum0", y |-> "B11",  z |-> "M"],
       [op |-> "sub",  x |-> "C00",  y |-> "M",    z |-> "C00"],
       [op |-> "sum",  x |-> "C01",  y |-> "M",    z |-> "C01"],
       [op |-> "sub",  x |-> "A10",  y |-> "A00",  z |-> "sum0"],
       [op |-> "sum",  x |-> "B00",  y |-> "B01",  z |-> "sum1"],
       [op |-> "call", x |-> "sum0", y |-> "sum1", z |-> "M"],
       [op |-> "sum",  x |-> "C11",  y |-> "M",    z |-> "C11"],
       [op |-> "sub",  x |-> "A01",  y |-> "A11",  z |-> "sum0"],
       [op |-> "sum",  x |-> "B10",  y |-> "B11",  z |-> "sum1"],
       [op |-> "call", x |-> "sum0", y |-> "sum1", z |-> "M"],
       [op |-> "sum",  x |-> "C00",  y |-> "M",    z |-> "C00"] >>

\* The statements of the decomposing branch, in order; a call passes (x, y, z, SR).
Program ==
    << [op |-> "sum",  x |-> "A00",  y |-> "A11",  z |-> "sum0"],
       [op |-> "sum",  x |-> "B00",  y |-> "B11",  z |-> "sum1"],
       [op |-> "call", x |-> "sum0", y |-> "sum1", z |-> "M"],
       [op |-> "sum",  x |-> "C00",  y |-> "M",    z |-> "C00"],
       [op |-> "sum",  x |-> "C11",  y |-> "M",    z |-> "C11"],
       [op |-> "sum",  x |-> "A10",  y |-> "A11",  z |-> "sum0"],
       [op |-> "call", x |-> "sum0", y |-> "B00",  z |-> "M"],
       [op |-> "sum",  x |-> "C10",  y |-> "M",    z |-> "C10"],
       [op |-> "sub",  x |-> "C11",  y |-> "M",    z |-> "C11"],
       [op |-> "sub",  x |-> "B01",  y |-> "B11",  z |-> "sum0"],
       [op |-> "call", x |-> "A00",  y |-> "sum0", z |-> "M"],
       [op |-> "sum",  x |-> "C01",  y |-> "M",    z |-> "C01"],
       [op |-> "sum",  x |-> "C11",  y |-> "M",    z |-> "C11"],
       [op |-> "sub",  x |-> "B10",  y |-> "B00",  z |-> "sum0"],
       [op |-> "call", x |-> "A11",  y |-> "sum0", z |-> "M"],
       [op |-> "sum",  x |-> "C00",  y |-> "M",    z |-> "C00"],
       [op |-> "sum",  x |-> "C10",  y |-> "M",    z |-> "C10"],
       [op |-> "sum",  x |-> "A00",  y |-> "A01",  z |-> "sum0"],
       [op |-> "call", x |-> "sum0", y |-> "B11",  z |-> "M"],
       [op |-> "sub",  x |-> "C00",  y |-> "M",    z |-> "C00"],
       [op |-> "sum",  x |-> "C01",  y |-> "M",    z |-> "C01"],
       [op |-> "sub",  x |-> "A10",  y |-> "A00",  z |-> "sum0"],
       [op |-> "sum",  x |-> "B00",  y |-> "B01",  z |-> "sum1"],
       [op |-> "call", x |-> "sum0", y |-> "sum1", z |-> "M"],
       [op |-> "sum",  x |-> "C11",  y |-> "M",    z |-> "C11"],
       [op |-> "sub",  x |-> "A01",  y |-> "A11",  z |-> "sum0"],
       [op |-> "sum",  x |-> "B10",  y |-> "B11",  z |-> "sum1"],
       [op |-> "call", x |-> "sum0", y |-> "sum1", z |-> "M"],
       [op |-> "sum",  x |-> "C00",  y |-> "M",    z |-> "C00"] >>

\* Mutant of is_terminal: the base case starts one above the cutoff.
is_terminal_early(dim, cut) == dim % 2 = 1 \/ dim <= cut + 1

\* if (C.dimension % 2 == 1 || C.dimension <= cutoff)
is_terminal(dim, cut) == dim % 2 = 1 \/ dim <= cut

\* Some cell a view reaches holds a value other than zero.
Dirty(m, v) ==
    \E x, y \in 0 .. (v.dimension - 1) : submatrix_at(m, v, x, y) # 0

\* A fresh activation record; dirty records what C and S held on entry.
Frame(m, va, vb, vc, vs) ==
    [A |-> va, B |-> vb, C |-> vc, S |-> vs, stage |-> "clear", ip |-> 1,
     dirty |-> (Dirty(m, vc) \/ Dirty(m, vs))]

\* No activation has returned yet; no view is held.
NoView == [data |-> "none", i |-> 0, j |-> 0, dimension |-> 0]

NoFrame ==
    [A |-> NoView, B |-> NoView, C |-> NoView, S |-> NoView, stage |-> "none",
     ip |-> 1, dirty |-> FALSE]

Top == stack[Len(stack)]

SetTop(f) == [stack EXCEPT ![Len(stack)] = f]

\* Mutant of Resume: the activation stays on the statement it has executed.
Resume_stays(f) == f

\* The caller resumes after its call statement.
Resume(f) ==
    IF f.ip = Len(Program)
    THEN [f EXCEPT !.stage = "end"]
    ELSE [f EXCEPT !.ip = f.ip + 1]

Popped ==
    LET rest == SubSeq(stack, 1, Len(stack) - 1)
    IN  IF rest = <<>>
        THEN rest
        ELSE [rest EXCEPT ![Len(rest)] = Resume(rest[Len(rest)])]

\* ------------------------------------------------------------------ main

\* An input matrix: 'fill' everywhere, one more in the flat cell 'hot'.
Mat(n, fill, hot) ==
    [dimension |-> n,
     data |-> [idx \in 0 .. (n * n - 1) |-> IF idx = hot THEN fill + 1 ELSE fill]]

\* The background values: those of the random mode, rand() % 2.
Fills == {0, 1}

\* The hot cells enumerated for a dimension.
Hots(n) == IF n <= MaxFullDim THEN 0 .. (n * n - 1) ELSE {0, n * n - 1}

Init ==
    \E n \in 1 .. MaxDim, cut \in 1 .. MaxCutoff :
      \E fa, fb \in Fills :
        \E ha, hb \in Hots(n) :
          /\ dimension = n
          /\ cutoff = cut
          /\ mem = [a |-> Mat(n, fa, ha),
                    b |-> Mat(n, fb, hb),
                    c_padded |-> matrix_data(padding_size(n, cut)),
                    scratch_space |-> matrix_data(0)]
          /\ mem0 = mem
          /\ stack = <<>>
          /\ pc = "main"
          /\ calls = 0
          /\ returned = NoFrame
          /\ side = 0
          /\ depth = 0
          /\ view = NoView

\* strassen_mul(a, b, c_padded, cutoff): the views, the scratch space and the
\* first activation.
strassen_mul ==
    /\ pc = "main"
    /\ LET c  == submatrix(mem, "c_padded")
           m1 == [mem EXCEPT !.scratch_space = matrix_data(c.dimension)]
           va == [submatrix(mem, "a") EXCEPT !.dimension = c.dimension]
           vb == [submatrix(mem, "b") EXCEPT !.dimension = c.dimension]
       IN  /\ mem' = m1
           /\ stack' = <<Frame(m1, va, vb, c, submatrix(m1, "scratch_space"))>>
    /\ pc' = "strassen_mul"
    /\ calls' = calls + 1
    /\ UNCHANGED <<fixed, returned>>

\* C.clear()
do_clear ==
    /\ pc = "strassen_mul"
    /\ stack # <<>>
    /\ Top.stage = "clear"
    /\ mem' = clear(mem, Top.C)
    /\ stack' = SetTop([Top EXCEPT !.stage = "test"])
    /\ UNCHANGED <<fixed, pc, calls, returned>>

\* The terminal branch: linear_mul(A, B, C); return.
do_linear ==
    /\ pc = "strassen_mul"
    /\ stack # <<>>
    /\ Top.stage = "test"
    /\ is_terminal(Top.C.dimension, cutoff)
    /\ mem' = linear_mul(mem, Top.A, Top.B, Top.C)
    /\ stack' = Popped
    /\ returned' = Top
    /\ pc' = IF Len(stack) = 1 THEN "done" ELSE pc
    /\ UNCHANGED <<fixed, calls>>

\* The decomposing branch: the quadrant views are cut.
do_split ==
    /\ pc = "strassen_mul"
    /\ stack # <<>>
    /\ Top.stage = "test"
    /\ ~is_terminal(Top.C.dimension, cutoff)
    /\ stack' = SetTop([Top EXCEPT !.stage = "body", !.ip = 1])
    /\ UNCHANGED <<fixed, mem, pc, calls, returned>>

do_sum ==
    /\ pc = "strassen_mul"
    /\ stack # <<>>
    /\ Top.stage = "body"
    /\ Program[Top.ip].op = "sum"
    /\ LET s == Program[Top.ip]
       IN  mem' = sum(mem, Operand(Top, s.x), Operand(Top, s.y), Operand(Top, s.z))
    /\ stack' = SetTop(Resume(Top))
    /\ UNCHANGED <<fixed, pc, calls, returned>>

do_sub ==
    /\ pc = "strassen_mul"
    /\ stack # <<>>
    /\ Top.stage = "body"
    /\ Program[Top.ip].op = "sub"
    /\ LET s == Program[Top.ip]
       IN  mem' = sub(mem, Operand(Top, s.x), Operand(Top, s.y), Operand(Top, s.z))
    /\ stack' = SetTop(Resume(Top))
    /\ UNCHANGED <<fixed, pc, calls, returned>>

\* strassen_mul_recursion(x, y, M, SR)
do_call ==
    /\ pc = "strassen_mul"
    /\ stack # <<>>
    /\ Top.stage = "body"
    /\ Program[Top.ip].op = "call"
    /\ LET s == Program[Top.ip]
       IN  stack' = Append(stack, Frame(mem, Operand(Top, s.x), Operand(Top, s.y),
                                        Operand(Top, s.z), Operand(Top, "SR")))
    /\ calls' = calls + 1
    /\ UNCHANGED <<fixed, mem, pc, returned>>

\* The end of the decomposing branch.
do_return ==
    /\ pc = "strassen_mul"
    /\ stack # <<>>
    /\ Top.stage = "end"
    /\ stack' = Popped
    /\ returned' = Top
    /\ pc' = IF Len(stack) = 1 THEN "done" ELSE pc
    /\ UNCHANGED <<fixed, mem, calls>>

Next ==
    \/ strassen_mul
    \/ do_clear
    \/ do_linear
    \/ do_split
    \/ do_sum
    \/ do_sub
    \/ do_call
    \/ do_return

Spec == Init /\ [][Next]_vars

\* ------------------------------------------------------------ properties

\* f[0] + ... + f[n - 1]
RECURSIVE SumTo(_, _)
SumTo(f, n) == IF n = 0 THEN 0 ELSE f[n - 1] + SumTo(f, n - 1)

\* Cell (i, j) of the product of two buffers of side n, by the definition.
NaiveCell(ma, mb, n, i, j) ==
    SumTo([k \in 0 .. (n - 1) |-> matrix_data_get(ma, i, k) * matrix_data_get(mb, k, j)], n)

\* C1: when strassen_mul has returned, every cell (i, j) with i, j < N of the
\* padded output buffer equals the naive product of a and b at (i, j), whatever
\* the cutoff.
C1_TopLeftIsNaiveProduct ==
    pc = "done" =>
        \A i, j \in 0 .. (dimension - 1) :
            matrix_data_get(mem.c_padded, i, j) = NaiveCell(mem.a, mem.b, dimension, i, j)

\* A padded, twice decomposed run has returned with a product that is not zero.
C1_Witness ==
    /\ pc = "done"
    /\ dimension = 3
    /\ cutoff = 1
    /\ mem.c_padded.dimension = 4
    /\ calls > 8
    /\ \E i, j \in 0 .. (dimension - 1) : matrix_data_get(mem.c_padded, i, j) > 1

\* The views the activations on the stack read through, and those they
\* write through.
LiveViews ==
    UNION {{stack[d].A, stack[d].B, stack[d].C, stack[d].S} : d \in 1 .. Len(stack)}

WrittenViews ==
    UNION {{stack[d].C, stack[d].S} : d \in 1 .. Len(stack)}

\* The buffer coordinates of local cell (x, y) of v lie inside v's buffer.
InsideBuffer(v, x, y) ==
    /\ v.i + x >= 0 /\ v.i + x < mem[v.data].dimension
    /\ v.j + y >= 0 /\ v.j + y < mem[v.data].dimension

\* C2: through every live view, a local cell (x, y) whose buffer coordinates
\* (i + x, j + y) lie in [0, dimension) x [0, dimension) reads and writes
\* exactly that buffer cell, and any other local cell reads 0 and writes
\* nothing (so too when i + x >= dimension and the column is in range).
C2_ViewMapsCellOrZero ==
    /\ \A v \in LiveViews :
          \A x, y \in 0 .. (v.dimension - 1) :
              submatrix_at(mem, v, x, y) =
                  IF InsideBuffer(v, x, y)
                  THEN matrix_data_get(mem[v.data], v.i + x, v.j + y)
                  ELSE 0
    /\ \A v \in WrittenViews :
          \A x, y \in 0 .. (v.dimension - 1) :
              LET val == submatrix_at(mem, v, x, y) + 1
              IN  submatrix_assign(mem, v, x, y, val) =
                      IF InsideBuffer(v, x, y)
                      THEN [mem EXCEPT ![v.data].data[(v.i + x) +
                                mem[v.data].dimension * (v.j + y)] = val]
                      ELSE mem

\* The number of activations of a run that decomposes at every depth below k.
RECURSIVE FullTree(_)
FullTree(k) == IF k = 0 THEN 1 ELSE 1 + 7 * FullTree(k - 1)

OddCase == dimension \in {1, 3, 5} /\ cutoff = 1

NoDecomposition ==
    /\ calls <= 1
    /\ \A d \in 1 .. Len(stack) : stack[d].stage \in {"clear", "test"}

\* C5 as stated: for N = 1, 3, 5 with cutoff 1 the entry point goes straight to
\* linear_mul, with no decomposition and no recursive call, and the result is
\* the naive product.
C5_OddGoesStraightToLinear ==
    OddCase => NoDecomposition /\ C1_TopLeftIsNaiveProduct

\* C5 amended: with cutoff 1, N = 1 goes straight to linear_mul; N = 3 and
\* N = 5 are padded to 4 and 8 and decomposed at every side above 1 (57 and 400
\* activations); in all three cases the result is the naive product.
C5_OddIsPaddedAndDecomposed ==
    OddCase =>
        /\ dimension = 1 => NoDecomposition
        /\ dimension = 3 => mem.c_padded.dimension = 4
        /\ dimension = 5 => mem.c_padded.dimension = 8
        /\ pc = "done" =>
              /\ dimension = 3 => calls = FullTree(2)
              /\ dimension = 5 => calls = FullTree(3)
              /\ C1_TopLeftIsNaiveProduct

\* N = 5 with cutoff 1 has returned after decomposing three levels deep.
C5_Witness ==
    /\ OddCase
    /\ dimension = 5
    /\ pc = "done"
    /\ calls = 400
    /\ \E i, j \in 0 .. 4 : matrix_data_get(mem.c_padded, i, j) > 1

\* The buffer cells a view reaches: <<buffer, flat index>> of every local cell
\* in bounds.
Cells(m, v) ==
    {<<v.data, (v.i + x) + m[v.data].dimension * (v.j + y)>> :
        <<x, y>> \in {c \in (0 .. (v.dimension - 1)) \X (0 .. (v.dimension - 1)) :
                         submatrix_in_bounds(m, v, c[1], c[2])}}

Buffers == {"a", "b", "c_padded", "scratch_space"}

\* The cells that differ between two memories of the same shape.
Changed(m1, m2) ==
    UNION {{<<name, idx>> : idx \in {k \in DOMAIN m1[name].data :
                                         m1[name].data[k] # m2[name].data[k]}} :
           name \in {b \in Buffers : m1[b] # m2[b]}}

\* What a caller keeps across a sub-call: sum0, sum1 and its output quadrants.
CallerKeeps(m, f) ==
    UNION {Cells(m, Operand(f, q)) : q \in {"sum0", "sum1", "C00", "C01", "C10", "C11"}}

\* C6: a step of an activation changes only cells of its own C and S, and of
\* the C and S of every activation below it on the stack; a and b never
\* change; and a step taken inside a sub-call changes no cell of any caller's
\* sum0, sum1, C00, C01, C10 or C11.
C6_WritesStayInOutputAndScratch ==
    [][ /\ mem'.a = mem.a
        /\ mem'.b = mem.b
        /\ (stack # <<>> /\ mem' # mem) =>
             LET changed == Changed(mem, mem') IN
             /\ \A d \in 1 .. Len(stack) :
                    changed \subseteq
                        (Cells(mem, stack[d].C) \cup Cells(mem, stack[d].S))
             /\ \A d \in 1 .. (Len(stack) - 1) :
                    changed \cap CallerKeeps(mem, stack[d]) = {}
      ]_vars

\* Two levels down, a sub-call has written its output while its caller and
\* its caller's caller hold sums, and the inputs are as they were.
C6_Witness ==
    /\ Len(stack) = 3
    /\ Top.stage = "end"
    /\ Dirty(mem, Top.C)
    /\ Dirty(mem, Operand(stack[1], "sum0"))
    /\ Dirty(mem, Operand(stack[2], "sum0"))
    /\ Dirty(mem, Operand(stack[2], "sum1"))
    /\ mem.a = mem0.a /\ mem.b = mem0.b

\* ------------------------------------------------------------ recombination

Square(h) == (0 .. (h - 1)) \X (0 .. (h - 1))

\* A function as a table of its values, computed once.
Table(f) == f @@ <<>>

\* What a view reads, as a matrix indexed by <<row, column>>.
ViewMat(m, v) ==
    Table([c \in Square(v.dimension) |-> submatrix_at(m, v, c[1], c[2])])

\* The matrix operations take their operands as bound values, so that each
\* operand is computed once.
MAdd(p, q) ==
    CHOOSE r \in {Table([c \in DOMAIN pp |-> pp[c] + qq[c]]) : pp \in {p}, qq \in {q}} : TRUE

MSub(p, q) ==
    CHOOSE r \in {Table([c \in DOMAIN pp |-> pp[c] - qq[c]]) : pp \in {p}, qq \in {q}} : TRUE

MScale(s, p) ==
    CHOOSE r \in {Table([c \in DOMAIN pp |-> s * pp[c]]) : pp \in {p}} : TRUE

MZero(h) == Table([c \in Square(h) |-> 0])

MMul(p, q, h) ==
    CHOOSE r \in
        {Table([c \in Square(h) |->
                  SumTo([k \in 0 .. (h - 1) |-> pp[<<c[1], k>>] * qq[<<k, c[2]>>]], h)]) :
            pp \in {p}, qq \in {q}} : TRUE

\* The seven products of a frame, from what its input quadrants read.
StrassenProduct(m, f, t) ==
    LET h == Operand(f, "A00").dimension
        Q(name) == ViewMat(m, Operand(f, name))
    IN  CASE t = 1 -> MMul(MAdd(Q("A00"), Q("A11")), MAdd(Q("B00"), Q("B11")), h)
          [] t = 2 -> MMul(MAdd(Q("A10"), Q("A11")), Q("B00"), h)
          [] t = 3 -> MMul(Q("A00"), MSub(Q("B01"), Q("B11")), h)
          [] t = 4 -> MMul(Q("A11"), MSub(Q("B10"), Q("B00")), h)
          [] t = 5 -> MMul(MAdd(Q("A00"), Q("A01")), Q("B11"), h)
          [] t = 6 -> MMul(MSub(Q("A10"), Q("A00")), MAdd(Q("B00"), Q("B01")), h)
          [] t = 7 -> MMul(MSub(Q("A01"), Q("A11")), MAdd(Q("B10"), Q("B11")), h)

\* The sign with which product t enters an output quadrant.
Coef ==
    [C00 |-> <<1, 0, 0, 1, -1, 0, 1>>,
     C01 |-> <<0, 0, 1, 0, 1, 0, 0>>,
     C10 |-> <<0, 1, 0, 1, 0, 0, 0>>,
     C11 |-> <<1, -1, 1, 0, 0, 1, 0>>]

OutputQuadrants == {"C00", "C01", "C10", "C11"}

\* The recombination of an output quadrant restricted to the products 1 .. k.
RECURSIVE Recombined(_, _, _, _)
Recombined(m, f, q, k) ==
    IF k = 0
    THEN MZero(Operand(f, q).dimension)
    ELSE IF Coef[q][k] = 0
         THEN Recombined(m, f, q, k - 1)
         ELSE MAdd(Recombined(m, f, q, k - 1),
                   MScale(Coef[q][k], StrassenProduct(m, f, k)))

\* The sub-calls a frame has completed before statement ip.
CallsBefore(ip) == Cardinality({s \in 1 .. (ip - 1) : Program[s].op = "call"})

\* A frame at a point where every completed product has to be folded: about
\* to start its next sub-call, or at its end.
AtCallOrEnd(f) ==
    \/ f.stage = "end"
    \/ f.stage = "body" /\ Program[f.ip].op = "call"

ProductsDone(f) == IF f.stage = "end" THEN 7 ELSE CallsBefore(f.ip)

\* C7: when a decomposing call reaches its end its output quadrants are
\* C00 = M1 + M4 - M5 + M7, C01 = M3 + M5, C10 = M2 + M4 and
\* C11 = M1 - M2 + M3 + M6 with M1 .. M7 the seven Strassen products of its
\* input quadrants; and whenever the running call is about to start a sub-call,
\* which overwrites M, each output quadrant already holds the part of its
\* formula made of the products completed so far.
C7_StrassenRecombination ==
    (stack # <<>> /\ AtCallOrEnd(Top)) =>
        \A q \in OutputQuadrants :
            ViewMat(mem, Operand(Top, q)) = Recombined(mem, Top, q, ProductsDone(Top))

\* A decomposing call one level down is at its end: its quadrants and its
\* last product are not zero.
C7_Witness ==
    /\ Len(stack) = 2
    /\ Top.stage = "end"
    /\ Dirty(mem, Operand(Top, "M"))
    /\ \A q \in OutputQuadrants : Dirty(mem, Operand(Top, q))
    /\ \E c \in Square(Operand(Top, "C00").dimension) :
           ViewMat(mem, Operand(Top, "C00"))[c] < 0

\* ------------------------------------------------- initial contents of C, S

\* The caller has just got control back from the activation in 'returned'.
JustReturned ==
    \/ pc = "done"
    \/ /\ stack # <<>>
       /\ Top.stage = "body"
       /\ Top.ip > 1
       /\ Program[Top.ip - 1].op = "call"

InitPad ==
    \E n \in 1 .. MaxPadDim, cut \in 1 .. MaxPadCutoff :
        /\ dimension = n
        /\ cutoff = cut
        /\ mem = [a |-> matrix_data(n),
                  b |-> matrix_data(n),
                  c_padded |-> matrix_data(0),
                  scratch_space |-> matrix_data(0)]
        /\ mem0 = mem
        /\ stack = <<>>
        /\ pc = "pad_main"
        /\ calls = 0
        /\ returned = NoFrame
        /\ side = 0
        /\ depth = 0
        /\ view = NoView

\* matrix_data c_padded(padding_size(dimension, cutoff)); strassen_mul
\* allocates the scratch space and enters the first activation.
pad_allocate ==
    /\ pc = "pad_main"
    /\ LET p  == padding_size(dimension, cutoff)
           m1 == [mem EXCEPT !.c_padded = matrix_data(p),
                             !.scratch_space = matrix_data(p)]
       IN  /\ mem' = m1
           /\ stack' = <<Frame(m1, NoView, NoView, submatrix(m1, "c_padded"),
                               submatrix(m1, "scratch_space"))>>
           /\ side' = submatrix(m1, "c_padded").dimension
    /\ depth' = 0
    /\ calls' = 1
    /\ pc' = "pad_recursion"
    /\ UNCHANGED <<dimension, cutoff, mem0, returned, view>>

\* The decomposing branch is taken and one of its calls
\* strassen_mul_recursion(., ., M, SR) is entered.
pad_descend ==
    /\ pc = "pad_recursion"
    /\ ~is_terminal(Top.C.dimension, cutoff)
    /\ stack' = <<Frame(mem, NoView, NoView, Operand(Top, "M"), Operand(Top, "SR"))>>
    /\ side' = Operand(Top, "M").dimension
    /\ depth' = depth + 1
    /\ calls' = calls + 1
    /\ UNCHANGED <<dimension, cutoff, mem, mem0, pc, returned, view>>

\* The terminal branch is taken: linear_mul(A, B, C).
pad_base ==
    /\ pc = "pad_recursion"
    /\ is_terminal(Top.C.dimension, cutoff)
    /\ pc' = "pad_linear_mul"
    /\ UNCHANGED <<dimension, cutoff, mem, mem0, stack, calls, returned, side, depth, view>>

NextPad ==
    \/ pad_allocate
    \/ pad_descend
    \/ pad_base

SpecPad == InitPad /\ [][NextPad]_vars

\* Halving p while it exceeds c only ever halves an even number.
RECURSIVE HalvesEvenly(_, _)
HalvesEvenly(p, c) ==
    IF p <= c THEN TRUE ELSE p % 2 = 0 /\ HalvesEvenly(p \div 2, c)

\* C3: the side of the padded output is the smallest P >= N that halves evenly
\* down to the cutoff; it is N when N <= C, and 8 for N = 5, C = 2.
C3_PaddingIsSmallestEvenlyHalving ==
    pc # "pad_main" =>
        LET P == mem.c_padded.dimension
        IN  /\ P >= dimension
            /\ HalvesEvenly(P, cutoff)
            /\ \A q \in dimension .. (P - 1) : ~HalvesEvenly(q, cutoff)
            /\ dimension <= cutoff => P = dimension
            /\ (dimension = 5 /\ cutoff = 2) => P = 8

\* The padded output of N = 5, C = 2 has been allocated.
C3_Witness ==
    /\ pc = "pad_recursion"
    /\ dimension = 5
    /\ cutoff = 2
    /\ mem.c_padded.dimension = 8
    /\ depth = 0

\* The number of ceiling-halvings padding_size performs.
Halvings == padding_loop(dimension, cutoff, 0).power

\* C4: an activation at depth j has side P / 2^j; above depth k the side is
\* even and greater than the cutoff, so the activation decomposes; at depth k
\* the side is at most the cutoff; the base case is entered at depth k only,
\* never with a side greater than the cutoff.
C4_DepthIsHalvings ==
    pc # "pad_main" =>
        /\ side = Top.C.dimension
        /\ side * (2 ^ depth) = mem.c_padded.dimension
        /\ depth <= Halvings
        /\ depth < Halvings =>
             /\ side % 2 = 0
             /\ side > cutoff
             /\ pc = "pad_recursion"
        /\ depth = Halvings => side <= cutoff
        /\ pc = "pad_linear_mul" => (depth = Halvings /\ side <= cutoff)

\* N = 5 with cutoff 1: the base case is reached three levels down on side 1.
C4_Witness ==
    /\ pc = "pad_linear_mul"
    /\ dimension = 5
    /\ cutoff = 1
    /\ depth = 3
    /\ side = 1
    /\ mem.c_padded.dimension = 8

\* ------------------------------------------------------------- linear_mul

\* linear_mul on whole buffers of side n: a and b from the input family, the
\* output with any contents of that family or zero.
InitLinear ==
    \E n \in 1 .. MaxLinDim :
      \E fa, fb, fc \in Fills :
        \E ha, hb \in Hots(n), hc \in Hots(n) \cup {n * n} :
          /\ dimension = n
          /\ cutoff = n
          /\ mem = [a |-> Mat(n, fa, ha),
                    b |-> Mat(n, fb, hb),
                    c_padded |-> Mat(n, fc, hc),
                    scratch_space |-> matrix_data(0)]
          /\ mem0 = mem
          /\ stack = <<>>
          /\ pc = "linear_main"
          /\ calls = 0
          /\ returned = NoFrame
          /\ side = 0
          /\ depth = 0
          /\ view = NoView

\* linear_mul(a, b, c)
linear_call ==
    /\ pc = "linear_main"
    /\ mem' = linear_mul(mem, submatrix(mem, "a"), submatrix(mem, "b"),
                         submatrix(mem, "c_padded"))
    /\ pc' = "linear_done"
    /\ UNCHANGED <<dimension, cutoff, stack, calls, returned, mem0, side, depth, view>>

NextLinear == linear_call

SpecLinear == InitLinear /\ [][NextLinear]_vars

\* C10: after linear_mul every cell of the output is what it was plus the
\* naive product cell; the output is the product exactly when it was all zero
\* before; a and b are unchanged.
C10_LinearMulAccumulates ==
    pc = "linear_done" =>
        LET n == dimension
            IsProduct ==
                \A i, j \in 0 .. (n - 1) :
                    matrix_data_get(mem.c_padded, i, j) =
                        NaiveCell(mem0.a, mem0.b, n, i, j)
        IN  /\ \A i, j \in 0 .. (n - 1) :
                   matrix_data_get(mem.c_padded, i, j) =
                       matrix_data_get(mem0.c_padded, i, j)
                           + NaiveCell(mem0.a, mem0.b, n, i, j)
            /\ IsProduct <=> (mem0.c_padded = matrix_data(n))
            /\ mem.a = mem0.a
            /\ mem.b = mem0.b

\* linear_mul has run on an output that was not zero and on factors whose
\* product is not zero.
C10_Witness ==
    /\ pc = "linear_done"
    /\ dimension = 3
    /\ mem0.c_padded # matrix_data(3)
    /\ mem.c_padded # mem0.c_padded

\* ------------------------------------------------ views of _strassen.cpp

\* matrix(int N): the whole buffer; data is the buffer's name.
matrix(name) == [data |-> name, i |-> 0, j |-> 0, n |-> 0]

matrix_whole(m, name) == [matrix(name) EXCEPT !.n = m[name].dimension]

\* matrix::sub(x, y)
matrix_sub(v, x, y) ==
    LET n == ceil_divide(v.n)
    IN  [data |-> v.data, i |-> v.i + x * n, j |-> v.j + y * n, n |-> n]

\* matrix::at(x, y)
matrix_at(m, v, x, y) ==
    IF x + v.i < m[v.data].dimension /\ y + v.j < m[v.data].dimension
    THEN m[v.data].data[x + v.i + m[v.data].dimension * (y + v.j)]
    ELSE 0

\* matrix::set(x, y, value)
matrix_set(m, v, x, y, value) ==
    IF x + v.i < m[v.data].dimension /\ y + v.j < m[v.data].dimension
    THEN [m EXCEPT ![v.data].data[x + v.i + m[v.data].dimension * (y + v.j)] = value]
    ELSE m

\* The view specification follows the operand 'a' of mul down the recursion:
\* in the decomposing branch the four children of a are read by sum and sub,
\* and a.sub(0, 0) and a.sub(1, 1) are passed on as the 'a' of a sub-call.
InitView ==
    \E n \in 1 .. MaxViewDim, cut \in 1 .. MaxCutoff :
      \E fa \in Fills, ha \in {0, n * n - 1} :
        /\ dimension = n
        /\ cutoff = cut
        /\ mem = [a |-> Mat(n, fa, ha),
                  b |-> matrix_data(n),
                  c_padded |-> matrix_data(n),
                  scratch_space |-> matrix_data(0)]
        /\ mem0 = mem
        /\ stack = <<>>
        /\ pc = "view_main"
        /\ calls = 0
        /\ returned = NoFrame
        /\ side = 0
        /\ depth = 0
        /\ view = NoView

\* mul(a, b, c)
view_mul ==
    /\ pc = "view_main"
    /\ view' = matrix_whole(mem, "a")
    /\ side' = matrix_whole(mem, "a").n
    /\ pc' = "view_mul"
    /\ calls' = 1
    /\ UNCHANGED <<dimension, cutoff, mem, mem0, stack, returned, depth>>

\* else-branch: mul(a.sub(0, 0), sum1, m2) or mul(a.sub(1, 1), sum1, m3)
view_sub ==
    /\ pc = "view_mul"
    /\ ~(view.n <= cutoff)
    /\ \E q \in {0, 1} :
         /\ view' = matrix_sub(view, q, q)
         /\ side' = matrix_sub(view, q, q).n
    /\ depth' = depth + 1
    /\ calls' = calls + 1
    /\ UNCHANGED <<dimension, cutoff, mem, mem0, stack, pc, returned>>

\* if (c.n <= cutoff): the triple loop
view_base ==
    /\ pc = "view_mul"
    /\ view.n <= cutoff
    /\ pc' = "view_base"
    /\ UNCHANGED <<dimension, cutoff, mem, mem0, stack, calls, returned, side, depth, view>>

NextView ==
    \/ view_mul
    \/ view_sub
    \/ view_base

SpecView == InitView /\ [][NextView]_vars

\* C9: the four children of the operand a decomposing mul cuts have side
\* ceil(n / 2) and origin moved by (qx, qy) * ceil(n / 2), and a cell of a
\* child whose coordinate in the parent is n or more reads as 0.
C9_ChildClippedToParent ==
    (pc = "view_mul" /\ view.n > cutoff) =>
        \A qx, qy \in {0, 1} :
            LET child == matrix_sub(view, qx, qy)
                half  == (view.n + 1) \div 2
            IN  /\ child.n = half
                /\ child.i = view.i + qx * half
                /\ child.j = view.j + qy * half
                /\ \A x, y \in 0 .. (child.n - 1) :
                       (qx * half + x >= view.n \/ qy * half + y >= view.n) =>
                           matrix_at(mem, child, x, y) = 0

\* ------------------------------------------------------- storage accesses

\* The views the next statement of the running activation goes through, each
\* with the bound d of the loops that index it (x, y in 0 .. d - 1).
PendingViews ==
    IF stack = <<>> \/ pc # "strassen_mul"
    THEN {}
    ELSE CASE Top.stage = "clear" -> {<<Top.C, Top.C.dimension>>}
           [] Top.stage = "test" /\ is_terminal(Top.C.dimension, cutoff) ->
                  {<<Top.A, Top.C.dimension>>, <<Top.B, Top.C.dimension>>,
                   <<Top.C, Top.C.dimension>>}
           [] Top.stage = "body" /\ Program[Top.ip].op \in {"sum", "sub"} ->
                  LET st == Program[Top.ip]
                      d  == Operand(Top, st.z).dimension
                  IN  {<<Operand(Top, st.x), d>>, <<Operand(Top, st.y), d>>,
                       <<Operand(Top, st.z), d>>}
           [] OTHER -> {}

\* at(x, y) of the view goes on to data.at(x + i, y + j).
ReachesStorage(m, v, x, y) == submatrix_in_bounds(m, v, x, y)

\* C11: a and b have side N, the output and the scratch space side
\* padding_size(N, cutoff), and every access of the next statement that reaches
\* the storage of a buffer has a row and a column that are not negative and a
\* flat index inside the buffer, at every depth.
C11_StorageAccessInRange ==
    /\ mem.a.dimension = dimension /\ mem.b.dimension = dimension
    /\ mem.c_padded.dimension = padding_size(dimension, cutoff)
    /\ pc # "main" => mem.scratch_space.dimension = padding_size(dimension, cutoff)
    /\ \A name \in Buffers : DOMAIN mem[name].data = 0 .. (matrix_data_size(mem[name]) - 1)
    /\ \A p \in PendingViews :
           \A x, y \in 0 .. (p[2] - 1) :
               ReachesStorage(mem, p[1], x, y) =>
                   /\ x + p[1].i >= 0
                   /\ y + p[1].j >= 0
                   /\ (x + p[1].i) + mem[p[1].data].dimension * (y + p[1].j)
                          \in 0 .. (matrix_data_size(mem[p[1].data]) - 1)

\* One level down a statement goes through a view of a whose side exceeds what
\* is left of the buffer: one of its cells reaches storage, another does not.
C11_Witness ==
    /\ Len(stack) = 2
    /\ dimension = 5
    /\ \E p \in PendingViews :
           /\ p[1].data = "a"
           /\ \E x, y \in 0 .. (p[2] - 1) : ReachesStorage(mem, p[1], x, y)
           /\ \E x, y \in 0 .. (p[2] - 1) : ~ReachesStorage(mem, p[1], x, y)

\* ------------------------------------------------------------ termination

\* No guard of the recursion reads a cell, so one pair of inputs per dimension
\* and cutoff shows every control path.
InitFair ==
    /\ Init
    /\ mem.a = Mat(dimension, 1, 0)
    /\ mem.b = Mat(dimension, 1, 0)

\* The recursion is synchronous and single-threaded: a statement that can be
\* executed is executed.
FairSpec == InitFair /\ [][Next]_vars /\ WF_vars(Next)

\* Sub-calls get strictly smaller sides, a side of 1 is terminal, and the
\* activations are those of the full 7-ary tree of the halvings.
ShrinkingCalls ==
    /\ \A d \in 2 .. Len(stack) :
           /\ stack[d].C.dimension = ceil_divide(stack[d - 1].C.dimension)
           /\ stack[d].C.dimension < stack[d - 1].C.dimension
    /\ \A d \in 1 .. Len(stack) :
           /\ stack[d].C.dimension >= 1
           /\ stack[d].C.dimension = 1 =>
                  (is_terminal(1, cutoff) /\ stack[d].stage \in {"clear", "test"})
           /\ stack[d].stage \in {"body", "end"} =>
                  ~is_terminal(stack[d].C.dimension, cutoff)
    /\ Cardinality({st \in 1 .. Len(Program) : Program[st].op = "call"}) = 7
    /\ calls <= FullTree(Halvings)
    /\ pc = "done" => calls = FullTree(Halvings)

\* C12: the recursive multiply terminates; every sub-call is made on a side
\* strictly smaller than its caller's, a decomposing call makes exactly 7
\* sub-calls (the activations number 1 + 7 + ... + 7^k), and a call on side 1
\* is terminal.
C12_RecursionTerminates == []ShrinkingCalls /\ <>(pc = "done")

\* A run of three levels has ended after all of its 400 activations.
C12_Witness ==
    /\ pc = "done"
    /\ Halvings = 3
    /\ calls = 1 + 7 + 49 + 343
    /\ stack = <<>>
    /\ returned.C.dimension = 8

\* ------------------------------------------------------ wrapping integers

\* An input matrix: 'fill' everywhere, 'big' in the flat cell 'hot'.
BigMat(n, fill, hot, big) ==
    [dimension |-> n,
     data |-> [idx \in 0 .. (n * n - 1) |-> IF idx = hot THEN big ELSE fill]]

\* Values at and near the ends of the range of int.
Bigs == {2 ^ (IntBits - 2), IntMax, IntMin}

\* strassen_mul on inputs read from a file: small values and one cell at or
\* near an end of the range, in a corner.
InitWrap ==
    \E n \in 1 .. MaxWrapDim, cut \in 1 .. MaxCutoff :
      \E fa, fb \in Fills, ga, gb \in Bigs :
        \E ha, hb \in {0, n * n - 1} :
          /\ dimension = n
          /\ cutoff = cut
          /\ mem = [a |-> BigMat(n, fa, ha, ga),
                    b |-> BigMat(n, fb, hb, gb),
                    c_padded |-> matrix_data(padding_size(n, cut)),
                    scratch_space |-> matrix_data(0)]
          /\ mem0 = mem
          /\ stack = <<>>
          /\ pc = "main"
          /\ calls = 0
          /\ returned = NoFrame
          /\ side = 0
          /\ depth = 0
          /\ view = NoView

SpecWrap == InitWrap /\ [][Next]_vars

\* matrix_data check(dimension); linear_mul(a, b, check): the linear result.
LinearResult ==
    LET m == [mem0 EXCEPT !.c_padded = matrix_data(dimension)]
    IN  linear_mul(m, submatrix(m, "a"), submatrix(m, "b"),
                   submatrix(m, "c_padded")).c_padded

\* C13: with int arithmetic modulo 2^w, when strassen_mul has returned every
\* cell (i, j) with i, j < N of its output equals the cell of the linear
\* result, whether or not sums and products wrapped on the way.
C13_WrappingPathsAgree ==
    pc = "done" =>
        \A i, j \in 0 .. (dimension - 1) :
            matrix_data_get(mem.c_padded, i, j) = matrix_data_get(LinearResult, i, j)

\* The true product fits int.
TrueProductFits ==
    \A i, j \in 0 .. (dimension - 1) :
        NaiveCell(mem0.a, mem0.b, dimension, i, j) \in IntMin .. IntMax

\* A decomposed run has returned; its last difference A01 - A11, still in
\* sum0, wrapped, while the true product fits int and is not zero.
C13_Witness ==
    /\ pc = "done"
    /\ dimension = 2
    /\ cutoff = 1
    /\ calls = 8
    /\ TrueProductFits
    /\ mem.c_padded # matrix_data(2)
    /\ LET s == submatrix(mem, "scratch_space")
           f == [NoFrame EXCEPT !.A = submatrix(mem, "a"), !.S = s]
       IN  submatrix_at(mem, Operand(f, "sum0"), 0, 0) #
               submatrix_at(mem, Operand(f, "A01"), 0, 0)
                   - submatrix_at(mem, Operand(f, "A11"), 0, 0)

====
